---- MODULE Spec2Model ----
(***************************************************************************)
(* Model of src/app.py, the Streamlit inventory dashboard.                 *)
(*                                                                         *)
(* Streamlit re-executes the whole script on every widget event.  One      *)
(* action of this model is one such script run: the call of                *)
(* load_inventory at line 54 followed by the "Receive Shipment" block at   *)
(* lines 111-147, including the call of save_inventory.  Both functions    *)
(* are wrapped by st.cache_data, and the wrappers are part of the model:   *)
(* load_inventory keeps one entry that lives 600 seconds, save_inventory   *)
(* keeps one entry per distinct DataFrame argument and never expires.      *)
(*                                                                         *)
(* The sidebar filters and the Overview / Low Stock tabs (lines 56-108)    *)
(* only read df and are not modelled.                                      *)
(*                                                                         *)
(* A DataFrame is a sequence of records; the fields stand for the columns  *)
(*   cat  "Item Category"       name "Item Name"                           *)
(*   exp  "Expiration Date"     man  "Manufacturer"                        *)
(*   sku  "SKU"                 qty  "Quantity in Stock"                   *)
(*   thr  "Reorder Threshold"   oq   "Order Quantity"                      *)
(*   flag "Need Reorder"                                                   *)
(***************************************************************************)
EXTENDS Integers, Sequences, FiniteSets, TLC

\* ---------------------------------------------------------------- bounds
MaxRows  == 2      \* rows of the spreadsheet the session starts from
MaxQty   == 2      \* largest value typed into "Quantity Received"
MaxStock == 3      \* receives stop once a stock level would pass this

\* ------------------------------------------------------- program constants
DEFAULT_THRESHOLD == 1
DEFAULT_ORDER_QTY == 1

\* -------------------------------------------------------- value encoding
NaN     == -1              \* blank numeric / date cell as read_excel returns it
NaT     == NaN             \* pandas "not a time"; written back as a blank cell
BadDate == -2              \* a cell whose text pd.to_datetime cannot parse
NaNStr  == "<blank>"       \* blank cell of the text column SKU
date_received == 1         \* value of the "Received Date" widget (today)

MandatoryCols == {"cat", "name", "man", "sku"}
OptionalCols  == {"exp", "qty", "thr", "oq"}
PersistedCols == MandatoryCols \cup OptionalCols
AllCols       == PersistedCols \cup {"flag"}

\* Series.astype(str): a blank cell becomes the text "nan"
astype_str(v) == IF v = NaNStr THEN "nan" ELSE v

\* pd.to_datetime(..., errors='coerce')
to_datetime(v) == IF v = BadDate \/ v = NaN THEN NaT ELSE v

\* elementwise  <=  of two numeric columns; a comparison with NaN is False
NeedReorder(q, t) == q # NaN /\ t # NaN /\ q <= t

\* elementwise  +=  on a numeric cell; NaN + n is NaN
PlusQty(v, n) == IF v = NaN THEN NaN ELSE v + n

VARIABLES
    file,        \* Inventory.xlsx
    load_cache,  \* st.cache_data(ttl=600) entry of load_inventory
    save_cache,  \* st.cache_data entries of save_inventory (one per argument)
    sku,         \* text_input "Scan or Enter SKU:"
    qty,         \* number_input "Quantity Received"
    run          \* what the last script run did

vars == <<file, load_cache, save_cache, sku, qty, run>>

\* ------------------------------------------------------- load_inventory
\* pd.read_excel with the FileNotFoundError fallback: rows and columns read
read_excel(f) ==
    IF f.exists THEN [cols |-> f.cols, rows |-> f.rows]
    ELSE [cols |-> PersistedCols, rows |-> << >>]

\* body of load_inventory (executed on a cache miss)
load_inventory_body(f) ==
    LET raw == read_excel(f) IN
    [i \in DOMAIN raw.rows |->
        LET r == raw.rows[i]
            q == IF "qty" \in raw.cols THEN r.qty ELSE 0
            t == IF "thr" \in raw.cols THEN r.thr ELSE DEFAULT_THRESHOLD
            o == IF "oq"  \in raw.cols THEN r.oq  ELSE DEFAULT_ORDER_QTY
            e == IF "exp" \in raw.cols THEN to_datetime(r.exp) ELSE NaT
        IN [cat |-> r.cat, name |-> r.name, exp |-> e, man |-> r.man,
            sku |-> r.sku, qty |-> q, thr |-> t, oq |-> o,
            flag |-> NeedReorder(q, t)]]

\* load_inventory as the script calls it: the cached snapshot while the
\* entry is alive, the body otherwise
load_inventory ==
    IF load_cache.valid THEN load_cache.value ELSE load_inventory_body(file)

\* ------------------------------------------------------- save_inventory
\* save that forgets to drop the helper column
keep_need_reorder(row) == row

\* df.drop(columns=['Need Reorder'], errors='ignore')
drop_need_reorder(row) == [c \in (DOMAIN row) \ {"flag"} |-> row[c]]

\* body of save_inventory: the file it writes
save_inventory_body(df) ==
    [exists |-> TRUE,
     cols   |-> IF df = << >> THEN PersistedCols
                ELSE DOMAIN drop_need_reorder(df[1]),
     rows   |-> [i \in DOMAIN df |-> drop_need_reorder(df[i])]]

\* save_inventory as the script calls it: the body runs only when no equal
\* DataFrame was passed before
save_hit(df) == df \in save_cache

\* ------------------------------------------------ Receive Shipment block
\* validation that lets the empty SKU through
sku_unchecked(s) == TRUE

\* line 117: "if not sku"
sku_given(s) == s # ""

\* line 120: the positions whose SKU text equals the input
Matches(df, s) == {i \in DOMAIN df : astype_str(df[i].sku) = s}

\* line 121: df.index[...][0]
first_match(df, s) == CHOOSE i \in Matches(df, s) : \A j \in Matches(df, s) : i <= j

\* increment applied to every record of the SKU instead of the first
receive_every_match(df, s, n) ==
    [i \in DOMAIN df |->
        IF i \in Matches(df, s) THEN [df[i] EXCEPT !.qty = PlusQty(@, n)] ELSE df[i]]

\* line 122: df.at[idx, 'Quantity in Stock'] += qty
receive_existing(df, s, n) ==
    [df EXCEPT ![first_match(df, s)].qty = PlusQty(@, n)]

\* lines 126-143: the detail widgets are created in this very run, so they
\* hold their defaults
new_row(s, n) ==
    [cat |-> "", name |-> "", exp |-> date_received, man |-> "",
     sku |-> s, qty |-> n, thr |-> DEFAULT_THRESHOLD,
     oq |-> DEFAULT_ORDER_QTY, flag |-> n <= DEFAULT_THRESHOLD]

\* receive block that leaves the flag as loaded
flag_not_recomputed(df) == df

\* line 146: df['Need Reorder'] = df['Quantity in Stock'] <= df['Reorder Threshold']
recompute_flag(df) ==
    [i \in DOMAIN df |-> [df[i] EXCEPT !.flag = NeedReorder(df[i].qty, df[i].thr)]]

\* lines 116-147 for one script run; add and confirm are what the two
\* st.button calls return in this run
receive_shipment(loaded, add, confirm, s, n) ==
    IF ~add THEN
        [df |-> loaded, outcome |-> "none", form |-> FALSE, save |-> FALSE]
    ELSE IF ~sku_given(s) THEN
        [df |-> loaded, outcome |-> "error", form |-> FALSE, save |-> FALSE]
    ELSE IF Matches(loaded, s) # {} THEN
        [df |-> recompute_flag(receive_existing(loaded, s, n)),
         outcome |-> "updated", form |-> FALSE, save |-> TRUE]
    ELSE IF confirm THEN
        [df |-> recompute_flag(Append(loaded, new_row(s, n))),
         outcome |-> "added", form |-> TRUE, save |-> TRUE]
    ELSE
        [df |-> recompute_flag(loaded),
         outcome |-> "info", form |-> TRUE, save |-> TRUE]

\* ------------------------------------------------------------ script run
\* One execution of the script.  click names the button whose click
\* triggered it ("none" for a rerun caused by editing a widget); a button
\* returns True only in the run its own click triggered.
ScriptRun(click, s, n) ==
    LET loaded == load_inventory
        r      == receive_shipment(loaded, click = "add", click = "confirm", s, n)
        writes == r.save /\ ~save_hit(r.df)
    IN /\ load_cache' = [valid |-> TRUE, value |-> loaded]
       /\ save_cache' = IF r.save THEN save_cache \cup {r.df} ELSE save_cache
       /\ file' = IF writes THEN save_inventory_body(r.df) ELSE file
       /\ run' = [click |-> click, loaded |-> loaded, df |-> r.df,
                  outcome |-> r.outcome, form |-> r.form,
                  saveCalled |-> r.save, wrote |-> writes]

\* the stock level the matched record would reach stays within the bound
WithinStock(s, n) ==
    LET t == load_inventory IN
    Matches(t, s) # {} => PlusQty(t[first_match(t, s)].qty, n) <= MaxStock

\* the operator edits the SKU or quantity widget (or any other widget)
EditWidget ==
    \E s \in {"", "A", "C"}, n \in 1..MaxQty :
        /\ sku' = s
        /\ qty' = n
        /\ ScriptRun("none", s, n)

\* the operator clicks "Add to Inventory"
ClickAdd ==
    /\ WithinStock(sku, qty)
    /\ ScriptRun("add", sku, qty)
    /\ UNCHANGED <<sku, qty>>

\* the operator clicks "Confirm Add New Item"; the button is on the page
\* only if the last run rendered the new-item form
ClickConfirm ==
    /\ run.form
    /\ ScriptRun("confirm", sku, qty)
    /\ UNCHANGED <<sku, qty>>

\* 600 seconds pass since load_inventory was last computed
Expire ==
    /\ load_cache.valid
    /\ load_cache' = [load_cache EXCEPT !.valid = FALSE]
    /\ UNCHANGED <<file, save_cache, sku, qty, run>>

\* ---------------------------------------------------------- initial state
\* rows of the spreadsheet: records of SKU "A" with a blank or filled
\* quantity and an unparseable or valid date, and a record whose SKU cell
\* is blank
FileRow ==
    [cat : {"c"}, name : {"n"}, man : {"m"},
     sku : {"A"}, qty : {NaN, 1}, thr : {2}, oq : {2}, exp : {BadDate, 2}]
    \cup
    [cat : {"c"}, name : {"n"}, man : {"m"},
     sku : {NaNStr}, qty : {1}, thr : {2}, oq : {2}, exp : {2}]

SeqsUpTo(S, n) == UNION {[1..k -> S] : k \in 0..n}

\* a column the file lacks carries no value
Blank(row, cols) ==
    [c \in PersistedCols |->
        IF c \in cols THEN row[c] ELSE NaN]

\* the optional columns a spreadsheet may lack; the two columns the loop of
\* lines 33-35 treats alike come or go together
ColumnSets ==
    {oc \in SUBSET OptionalCols : ("thr" \in oc) <=> ("oq" \in oc)}

Files ==
    {[exists |-> FALSE, cols |-> {}, rows |-> << >>]} \cup
    {[exists |-> TRUE, cols |-> MandatoryCols \cup oc,
      rows |-> [i \in DOMAIN rs |-> Blank(rs[i], MandatoryCols \cup oc)]] :
        oc \in ColumnSets, rs \in SeqsUpTo(FileRow, MaxRows)}

\* the session has just started: the script ran once with no click
Init ==
    \E f \in Files :
        /\ file = f
        /\ load_cache = [valid |-> TRUE, value |-> load_inventory_body(f)]
        /\ save_cache = {}
        /\ sku = ""
        /\ qty = 1
        /\ run = [click |-> "none", loaded |-> load_inventory_body(f),
                  df |-> load_inventory_body(f), outcome |-> "none",
                  form |-> FALSE, saveCalled |-> FALSE, wrote |-> FALSE]

Next == EditWidget \/ ClickAdd \/ ClickConfirm \/ Expire

Spec == Init /\ [][Next]_vars

\* ------------------------------------------------------------ properties
\* the persisted (non-derived) fields of every record of a table
Persisted(df) == [i \in DOMAIN df |-> drop_need_reorder(df[i])]

\* the flag a record must carry, written out from its two source fields
FlagOf(r) == r.qty # NaN /\ r.thr # NaN /\ r.qty <= r.thr

\* C1: after a save that wrote the file, the table the next call of
\* load_inventory returns has the persisted fields of the table saved.
C1_ReadAfterWrite ==
    run.wrote => Persisted(load_inventory) = Persisted(run.df)

\* C2: a receive on an existing SKU leaves the matched record's quantity at
\* the value the previous operation left plus the quantity received, so
\* that successive receives add up.
C2_ReceivesAccumulate ==
    [][ run'.outcome = "updated" =>
          LET i == first_match(run'.loaded, sku') IN
          run.df[i].qty # NaN => run'.df[i].qty = run.df[i].qty + qty' ]_vars

\* C3: a receive on an existing SKU hands to save a table that differs from
\* the loaded one in the first matching record only, and there only in the
\* quantity in stock (raised by the received quantity) and the derived flag;
\* other records of the same SKU are untouched.
C3_ReceiveFrame ==
    run.outcome = "updated" =>
        LET i == first_match(run.loaded, sku) IN
        /\ run.saveCalled
        /\ DOMAIN run.df = DOMAIN run.loaded
        /\ \A j \in DOMAIN run.df : j # i => run.df[j] = run.loaded[j]
        /\ \A c \in AllCols \ {"qty", "flag"} : run.df[i][c] = run.loaded[i][c]
        /\ run.df[i].qty = PlusQty(run.loaded[i].qty, qty)

C3_Witness ==
    /\ run.outcome = "updated"
    /\ Cardinality(Matches(run.loaded, sku)) = 2
    /\ run.loaded[1].qty = 1
    /\ run.df[1].qty = 1 + qty
    /\ run.df[2] = run.loaded[2]

\* C4: a receive whose SKU matches no record and that appends nothing
\* leaves the in-memory table and the persisted file as they were.
C4_UnknownSkuNoEffect ==
    [][ run'.outcome = "info" =>
          (file' = file /\ run'.df = run'.loaded) ]_vars

\* C5: every record of the table load_inventory returned, and of the table
\* the receive block leaves, carries needs-reorder = (quantity in stock <=
\* reorder threshold).
C5_FlagConsistent ==
    /\ \A i \in DOMAIN run.loaded : run.loaded[i].flag <=> FlagOf(run.loaded[i])
    /\ \A i \in DOMAIN run.df : run.df[i].flag <=> FlagOf(run.df[i])

C5_Witness ==
    /\ run.outcome = "updated"
    /\ \E i \in DOMAIN run.df :
         /\ run.loaded[i].qty = 1 /\ run.loaded[i].thr = 1 /\ run.loaded[i].flag
         /\ run.df[i].qty = 2 /\ run.df[i].thr = 1 /\ ~run.df[i].flag

\* C6: every record of a table load_inventory returns has a value in
\* quantity in stock, reorder threshold and order quantity.
C6_NoBlankAfterLoad ==
    \A i \in DOMAIN run.loaded :
        /\ run.loaded[i].qty # NaN
        /\ run.loaded[i].thr # NaN
        /\ run.loaded[i].oq # NaN

\* C7: "Add to Inventory" with an empty SKU reports the validation error,
\* leaves the in-memory table as loaded, and does not call save: neither
\* the file nor the save cache changes.
C7_EmptySkuRejected ==
    [][ (run'.click = "add" /\ sku' = "") =>
          /\ run'.outcome = "error"
          /\ run'.df = run'.loaded
          /\ ~run'.saveCalled
          /\ file' = file
          /\ save_cache' = save_cache ]_vars

C7_Witness ==
    /\ run.click = "add"
    /\ sku = ""
    /\ run.outcome = "error"
    /\ run.loaded # << >>
    /\ ~run.saveCalled

C9_ConfirmAppends ==
    run.click = "confirm" =>
        /\ run.outcome = "added"
        /\ run.saveCalled
        /\ \E i \in DOMAIN run.df :
             astype_str(run.df[i].sku) = sku /\ run.df[i].qty = qty

\* C10: after a receive that went through (increment or append), the file
\* holds the current in-memory table minus the needs-reorder field.
C10_MutationWrittenBack ==
    run.outcome \in {"updated", "added"} =>
        (file.exists /\ file.rows = Persisted(run.df))
====
